---- MODULE Spec2Model ----
(***************************************************************************)
(* A model of src/main.py: the schema inference and merge engine.          *)
(*                                                                         *)
(* Representation of Python values.                                        *)
(*   JSON data    [py |-> "int"], [py |-> "list", elems |-> <<...>>],      *)
(*                [py |-> "dict", fields |-> [key |-> value]]              *)
(*   a dict node  a function from its keys ("type", "properties", ...) to  *)
(*                their values; a key the dict lacks is not in its DOMAIN  *)
(*   a str        [str |-> s]   (the value of "type")                      *)
(*   a list       [list |-> <<...>>]  (a union "type", tuple "items")      *)
(*   None         [none |-> TRUE]                                          *)
(* "required" is always a list and is kept as a bare sequence.             *)
(***************************************************************************)
EXTENDS Integers, Sequences, FiniteSets, TLC

VARIABLES
    doc,              \* the schema document on disk (None before the first run)
    base,             \* existing_schema of the run (None if it has none)
    data,             \* the JSON value the run read
    new_schema,       \* generate_schema(data) as the run computed it
    op,               \* the run in progress: "generate", "extend", or "idle"
    extensions,       \* the number of extend runs since the last generate
    samples,          \* the values absorbed into doc, oldest first
    schema1,          \* the first argument of a direct merge_array_schemas call
    schema2,          \* its second argument
    merged            \* its result (None before the call)

vars == <<doc, base, data, new_schema, op, extensions, samples,
          schema1, schema2, merged>>

-----------------------------------------------------------------------------
(* Python values *)

None == [none |-> TRUE]

EmptyDict == [k \in {} |-> None]

PyStr(s) == [str |-> s]

PyList(s) == [list |-> s]

IsList(x) == "list" \in DOMAIN x

IsStr(x) == "str" \in DOMAIN x

IsDict(x) == x # None /\ ~IsList(x) /\ ~IsStr(x)

\* bool(x) for None, dicts, lists and strs
Truthy(x) ==
    /\ x # None
    /\ x # EmptyDict
    /\ x # PyList(<<>>)
    /\ x # PyStr("")

\* d.get(key): None when the key is missing
Get(d, key) == IF key \in DOMAIN d THEN d[key] ELSE None

\* d.get(key, default)
GetOr(d, key, default) == IF key \in DOMAIN d THEN d[key] ELSE default

Range(s) == {s[i] : i \in DOMAIN s}

\* isinstance(value, cls) on JSON data; bool is a subclass of int
IsInstance(value, cls) == value.py = cls \/ (cls = "int" /\ value.py = "bool")

\* The keys the model draws from, in the order sorted() puts them.
KeyOrder == <<"a", "b", "p">>

\* sorted(S) for a set S of keys
SortedKeys(S) == SelectSeq(KeyOrder, LAMBDA k : k \in S)

-----------------------------------------------------------------------------
(* get_json_type, normalize_type, merge_types *)

get_json_type(value) ==
    IF IsInstance(value, "bool") THEN "boolean"
    ELSE IF IsInstance(value, "int") THEN "number"
    ELSE IF IsInstance(value, "float") THEN "number"
    ELSE IF IsInstance(value, "str") THEN "string"
    ELSE IF IsInstance(value, "list") THEN "array"
    ELSE IF IsInstance(value, "dict") THEN "object"
    ELSE IF value.py = "NoneType" THEN "null"
    ELSE "unknown"

normalize_type(schema_type) ==
    IF IsStr(schema_type) THEN {schema_type.str}
    ELSE IF IsList(schema_type) THEN Range(schema_type.list)
    ELSE {}

type_order == <<"null", "boolean", "number", "string", "array", "object">>

\* The iteration order of a set of strings follows the strings' hashes,
\* which change from one process to the next. h is one such order: a
\* sequence holding once each of the six tags, get_json_type's fallback
\* "unknown" and the "" that .get("type", "") supplies.
IterOrder(S, h) == SelectSeq(h, LAMBDA t : t \in S)

\* sorted(list(all_types), key=index in type_order, else 999): the sort is
\* stable, so the tags outside type_order keep their iteration order.
SortedTypes(all_types, h) ==
    SelectSeq(type_order, LAMBDA t : t \in all_types)
        \o IterOrder(all_types \ Range(type_order), h)

merge_types(existing_types, new_type, h) ==
    LET all_types == existing_types \cup {new_type}
    IN  IF Cardinality(all_types) = 1
        THEN PyStr(CHOOSE t \in all_types : TRUE)
        ELSE PyList(SortedTypes(all_types, h))

\* list(type2)[0] if type2 else ""
FirstOf(type2, h) == IF type2 # {} THEN IterOrder(type2, h)[1] ELSE ""

\* The "different types" branch shared by both mergers.
UnionOfTypes(node1, node2, h) ==
    LET type1 == normalize_type(GetOr(node1, "type", PyStr("")))
        type2 == normalize_type(GetOr(node2, "type", PyStr("")))
    IN  "type" :> merge_types(type1, FirstOf(type2, h), h)

-----------------------------------------------------------------------------
(* The builders and the mergers *)

RECURSIVE merge_object_schemas(_, _, _)
RECURSIVE merge_array_schemas(_, _, _)
RECURSIVE generate_object_schema(_, _, _)
RECURSIVE analyze_array_items(_, _, _)
RECURSIVE FoldObjectSchemas(_, _, _, _)

\* A faulty MergeItem: it unions the types and never recurses into objects.
MergeItemTypesOnly(item1, item2, h) == UnionOfTypes(item1, item2, h)

\* The per-kind rule for a tuple index or a homogeneous "items" present on
\* both sides (main.py 137-146 and 157-166).
MergeItem(item1, item2, h) ==
    IF Get(item1, "type") = PyStr("object") /\ Get(item2, "type") = PyStr("object")
    THEN merge_object_schemas(item1, item2, h)
    ELSE IF Get(item1, "type") = Get(item2, "type")
    THEN item1
    ELSE UnionOfTypes(item1, item2, h)

\* A faulty TupleAdditionalItems: it asks input 2 before input 1.
TupleAdditionalItemsOfSecond(s1, s2) ==
    GetOr(s2, "additionalItems", GetOr(s1, "additionalItems", FALSE))

\* schema1.get("additionalItems", schema2.get("additionalItems", False))
TupleAdditionalItems(s1, s2) ==
    GetOr(s1, "additionalItems", GetOr(s2, "additionalItems", FALSE))

merge_array_schemas(s1, s2, h) ==
    LET items1 == GetOr(s1, "items", EmptyDict)
        items2 == GetOr(s2, "items", EmptyDict)
        array == "type" :> PyStr("array")
    IN  IF IsList(items1) /\ IsList(items2)
        THEN LET l1 == items1.list
                 l2 == items2.list
                 max_len == IF Len(l1) >= Len(l2) THEN Len(l1) ELSE Len(l2)
                 item1(i) == IF i <= Len(l1) THEN l1[i] ELSE None
                 item2(i) == IF i <= Len(l2) THEN l2[i] ELSE None
                 merged_items ==
                    [i \in 1..max_len |->
                        IF Truthy(item1(i)) /\ Truthy(item2(i))
                        THEN MergeItem(item1(i), item2(i), h)
                        ELSE IF Truthy(item1(i)) THEN item1(i)
                        ELSE item2(i)]
             IN  array @@ ("items" :> PyList(merged_items))
                       @@ ("additionalItems" :> TupleAdditionalItems(s1, s2))
        ELSE IF IsDict(items1) /\ IsDict(items2)
        THEN array @@ ("items" :> MergeItem(items1, items2, h))
        ELSE IF IsList(items1)
        THEN array @@ ("items" :> items1)
                   @@ ("additionalItems" :> GetOr(s1, "additionalItems", FALSE))
        ELSE IF IsList(items2)
        THEN array @@ ("items" :> items2)
                   @@ ("additionalItems" :> GetOr(s2, "additionalItems", FALSE))
        ELSE IF Truthy(items1)
        THEN array @@ ("items" :> items1)
        ELSE IF Truthy(items2)
        THEN array @@ ("items" :> items2)
        ELSE array

\* The property of the merged object under one key (main.py 193-213).
MergeProperty(prop1, prop2, h) ==
    IF Truthy(prop1) /\ Truthy(prop2)
    THEN IF Get(prop1, "type") = PyStr("object") /\ Get(prop2, "type") = PyStr("object")
         THEN merge_object_schemas(prop1, prop2, h)
         ELSE IF Get(prop1, "type") = PyStr("array") /\ Get(prop2, "type") = PyStr("array")
         THEN merge_array_schemas(prop1, prop2, h)
         ELSE IF Get(prop1, "type") = Get(prop2, "type")
         THEN prop1
         ELSE UnionOfTypes(prop1, prop2, h)
    ELSE IF Truthy(prop1) THEN prop1
    ELSE prop2

\* A faulty MergeRequired: the union, sorted(list(req1 | req2)).
MergeRequiredUnion(s1, s2) ==
    SortedKeys(Range(GetOr(s1, "required", <<>>))
               \cup Range(GetOr(s2, "required", <<>>)))

\* sorted(list(req1 & req2))
MergeRequired(s1, s2) ==
    LET req1 == Range(GetOr(s1, "required", <<>>))
        req2 == Range(GetOr(s2, "required", <<>>))
    IN  SortedKeys(req1 \cap req2)

merge_object_schemas(s1, s2, h) ==
    LET props1 == GetOr(s1, "properties", EmptyDict)
        props2 == GetOr(s2, "properties", EmptyDict)
        all_props == DOMAIN props1 \cup DOMAIN props2
    IN  ("type" :> PyStr("object"))
        @@ ("properties" :>
                [prop \in all_props |->
                    MergeProperty(Get(props1, prop), Get(props2, prop), h)])
        @@ ("required" :> MergeRequired(s1, s2))

\* The schema of the value under one key (main.py 238-252).
PropertySchema(value, existing_prop, h) ==
    IF IsInstance(value, "dict")
    THEN generate_object_schema(value, existing_prop, h)
    ELSE IF IsInstance(value, "list")
    THEN analyze_array_items(value.elems, existing_prop, h)
    ELSE IF Truthy(existing_prop)
    THEN "type" :> merge_types(
            normalize_type(GetOr(existing_prop, "type", PyStr(""))),
            get_json_type(value), h)
    ELSE "type" :> PyStr(get_json_type(value))

\* A faulty generate_object_schema: it requires every key but builds no
\* property for a key whose value is null.
GenerateObjectSchemaSkippingNull(obj, existing_schema, h) ==
    LET keys == DOMAIN obj.fields
        described == {key \in keys : obj.fields[key].py # "NoneType"}
    IN  ("type" :> PyStr("object"))
        @@ ("properties" :>
                [key \in described |-> PropertySchema(obj.fields[key], None, h)])
        @@ ("required" :> SortedKeys(keys))

generate_object_schema(obj, existing_schema, h) ==
    LET extends == Truthy(existing_schema)
                      /\ Get(existing_schema, "type") = PyStr("object")
        properties0 == IF extends
                       THEN GetOr(existing_schema, "properties", EmptyDict)
                       ELSE EmptyDict
        required0 == IF extends
                     THEN GetOr(existing_schema, "required", <<>>)
                     ELSE <<>>
        keys == DOMAIN obj.fields
    IN  ("type" :> PyStr("object"))
        @@ ("properties" :>
                [key \in DOMAIN properties0 \cup keys |->
                    IF key \in keys
                    THEN PropertySchema(obj.fields[key], Get(properties0, key), h)
                    ELSE properties0[key]])
        @@ ("required" :> SortedKeys(Range(required0) \cup keys))

\* merged_schema after the loop of main.py 61-63 has taken items[i..]
FoldObjectSchemas(items, i, merged_schema, h) ==
    IF i > Len(items) THEN merged_schema
    ELSE FoldObjectSchemas(items, i + 1,
            merge_object_schemas(merged_schema,
                generate_object_schema(items[i], None, h), h), h)

\* The schema of one element of a heterogeneous array (main.py 84-87).
TupleItemSchema(item, h) ==
    IF IsInstance(item, "dict")
    THEN generate_object_schema(item, None, h)
    ELSE "type" :> PyStr(get_json_type(item))

\* One position of an existing tuple extended by a new item (main.py 96-102).
ExtendTupleItem(existing_item, new_item, h) ==
    IF Get(existing_item, "type") = PyStr("object")
          /\ Get(new_item, "type") = PyStr("object")
    THEN merge_object_schemas(existing_item, new_item, h)
    ELSE IF Get(existing_item, "type") # Get(new_item, "type")
    THEN "type" :> merge_types(
            normalize_type(GetOr(existing_item, "type", PyStr(""))),
            GetOr(new_item, "type", PyStr("")).str, h)
    ELSE existing_item

\* A faulty UniqueTypes: it counts a tag that no element has, so that every
\* array looks mixed.
UniqueTypesWithUnknown(items) ==
    {get_json_type(items[i]) : i \in DOMAIN items} \cup {"unknown"}

\* set(types), the type tags of the elements (main.py 52-53)
UniqueTypes(items) == {get_json_type(items[i]) : i \in DOMAIN items}

analyze_array_items(items, existing_schema, h) ==
    LET array == "type" :> PyStr("array")
        has_items == Truthy(existing_schema) /\ "items" \in DOMAIN existing_schema
        unique_types == UniqueTypes(items)
    IN  IF items = <<>>
        THEN IF Truthy(existing_schema) THEN existing_schema
             ELSE array @@ ("items" :> EmptyDict)
        ELSE IF Cardinality(unique_types) = 1
        THEN LET item_type == CHOOSE t \in unique_types : TRUE
             IN  IF item_type = "object"
                 THEN LET merged_schema ==
                            FoldObjectSchemas(items, 2,
                                generate_object_schema(items[1], None, h), h)
                      IN  IF has_items
                             /\ IsDict(existing_schema["items"])
                             /\ Get(existing_schema["items"], "type") = PyStr("object")
                          THEN array @@ ("items" :>
                                  merge_object_schemas(existing_schema["items"],
                                                       merged_schema, h))
                          ELSE array @@ ("items" :> merged_schema)
                 ELSE IF has_items /\ IsDict(existing_schema["items"])
                 THEN array @@ ("items" :>
                         ("type" :> merge_types(
                             normalize_type(GetOr(existing_schema["items"],
                                                  "type", PyStr(""))),
                             item_type, h)))
                 ELSE array @@ ("items" :> ("type" :> PyStr(item_type)))
        ELSE LET item_schemas == [i \in DOMAIN items |-> TupleItemSchema(items[i], h)]
             IN  IF has_items /\ IsList(existing_schema["items"])
                 THEN LET existing_items == existing_schema["items"].list
                      IN  array
                          @@ ("items" :> PyList(
                                [i \in 1..(IF Len(existing_items) >= Len(item_schemas)
                                           THEN Len(existing_items)
                                           ELSE Len(item_schemas)) |->
                                    IF i > Len(item_schemas) THEN existing_items[i]
                                    ELSE IF i <= Len(existing_items)
                                    THEN ExtendTupleItem(existing_items[i],
                                                         item_schemas[i], h)
                                    ELSE item_schemas[i]]))
                          @@ ("additionalItems" :>
                                GetOr(existing_schema, "additionalItems", FALSE))
                 ELSE array @@ ("items" :> PyList(item_schemas))
                            @@ ("additionalItems" :> FALSE)

-----------------------------------------------------------------------------
(* generate_schema and extend_schema *)

SchemaURI == "http://json-schema.org/draft-07/schema#"

GeneratedTitle == "Generated schema for Root"

generate_schema(value, h) ==
    LET schema == ("$schema" :> SchemaURI) @@ ("title" :> GeneratedTitle)
    IN  IF IsInstance(value, "dict")
        THEN generate_object_schema(value, None, h) @@ schema
        ELSE IF IsInstance(value, "list")
        THEN analyze_array_items(value.elems, None, h) @@ schema
        ELSE ("type" :> PyStr(get_json_type(value))) @@ schema

\* A faulty extend_schema: it puts the base's metadata on whatever it returns.
ExtendSchemaKeepingMetadata(existing_schema, new_data, h) ==
    LET new_data_schema == generate_schema(new_data, h)
        metadata == ("$schema" :> GetOr(existing_schema, "$schema", SchemaURI))
                    @@ ("title" :> GetOr(existing_schema, "title", "Extended schema"))
    IN  IF Get(existing_schema, "type") = PyStr("object")
           /\ Get(new_data_schema, "type") = PyStr("object")
        THEN metadata @@ merge_object_schemas(existing_schema, new_data_schema, h)
        ELSE IF Get(existing_schema, "type") = PyStr("array")
                /\ Get(new_data_schema, "type") = PyStr("array")
        THEN metadata @@ merge_array_schemas(existing_schema, new_data_schema, h)
        ELSE metadata @@ new_data_schema

extend_schema(existing_schema, new_data, h) ==
    LET base_schema == existing_schema
        new_data_schema == generate_schema(new_data, h)
        metadata == ("$schema" :> GetOr(base_schema, "$schema", SchemaURI))
                    @@ ("title" :> GetOr(base_schema, "title", "Extended schema"))
    IN  IF Get(base_schema, "type") = PyStr("object")
           /\ Get(new_data_schema, "type") = PyStr("object")
        THEN metadata @@ merge_object_schemas(base_schema, new_data_schema, h)
        ELSE IF Get(base_schema, "type") = PyStr("array")
                /\ Get(new_data_schema, "type") = PyStr("array")
        THEN metadata @@ merge_array_schemas(base_schema, new_data_schema, h)
        ELSE new_data_schema

-----------------------------------------------------------------------------
(* The inputs *)

MaxExtends == 2

AnInt == [py |-> "int"]

AStr == [py |-> "str"]

ANull == [py |-> "NoneType"]

List(elems) == [py |-> "list", elems |-> elems]

Dict(fields) == [py |-> "dict", fields |-> fields]

\* The scalars found inside arrays and objects
Leaves == {AnInt, AStr, ANull}

Scalars == Leaves \cup {[py |-> "bool"], [py |-> "float"]}

\* All functions from a subset of keys to values
DictsOver(keys, values) ==
    UNION {{Dict(f) : f \in [ks -> values]} : ks \in SUBSET keys}

\* Arrays of at most two elements
ListsOver(elems) ==
    {List(<<>>)} \cup {List(<<x>>) : x \in elems}
                 \cup {List(<<x, y>>) : x \in elems, y \in elems}

Elems == {AnInt, AStr, List(<<AnInt>>), Dict("a" :> AnInt),
          Dict("a" :> AStr @@ "b" :> AStr)}

Arrays == ListsOver(Elems)

Objects ==
    DictsOver({"a", "b"},
              {AnInt, ANull, Dict("a" :> AnInt), Dict("a" :> AnInt @@ "b" :> AnInt)})
    \cup {Dict("p" :> l) : l \in ListsOver({AnInt, Dict("a" :> AnInt)})}

Inputs == Scalars \cup Arrays \cup Objects

Orderings(S) == {s \in [1..Cardinality(S) -> S] : Range(s) = S}

\* A fresh schema gets a union type only where the objects of one array
\* disagree on a key, so only tags of Leaves ever meet in the set that
\* list(type2)[0] reads: the orders differ in how they rank those tags.
UnionTags == {get_json_type(v) : v \in Leaves}

DefaultOrder == type_order \o <<"unknown", "">>

HashOrders ==
    {p \o SelectSeq(DefaultOrder, LAMBDA t : t \notin UnionTags) :
        p \in Orderings(UnionTags)}

RECURSIVE HasUnion(_)
\* Some "type" below the node is a list
HasUnion(node) ==
    \/ IsList(Get(node, "type"))
    \/ \E k \in DOMAIN GetOr(node, "properties", EmptyDict) :
            HasUnion(node["properties"][k])
    \/ /\ "items" \in DOMAIN node
       /\ IF IsList(node["items"])
          THEN \E i \in DOMAIN node["items"].list : HasUnion(node["items"].list[i])
          ELSE HasUnion(node["items"])

\* The orders that can tell runs on this value apart
HashOrdersFor(value) ==
    IF HasUnion(generate_schema(value, DefaultOrder))
    THEN HashOrders ELSE {DefaultOrder}

-----------------------------------------------------------------------------
(* The runs of main() *)

NoMerge == schema1 = None /\ schema2 = None /\ merged = None

Init ==
    /\ doc = None
    /\ base = None
    /\ data = None
    /\ new_schema = None
    /\ op = "idle"
    /\ extensions = 0
    /\ samples = <<>>
    /\ NoMerge

\* main() without --base-schema, up to the write of its output
Generate(value, h, track) ==
    /\ op = "idle"
    /\ doc' = generate_schema(value, h)
    /\ base' = None
    /\ data' = value
    /\ new_schema' = doc'
    /\ op' = "generate"
    /\ extensions' = 0
    /\ samples' = IF track THEN <<value>> ELSE <<>>
    /\ UNCHANGED <<schema1, schema2, merged>>

SameRootKind(schema_a, schema_b) ==
    \/ Get(schema_a, "type") = PyStr("object") /\ Get(schema_b, "type") = PyStr("object")
    \/ Get(schema_a, "type") = PyStr("array") /\ Get(schema_b, "type") = PyStr("array")

\* main() with --base-schema naming the document of the run before
Extend(value, h, track) ==
    /\ op = "idle"
    /\ Truthy(doc)
    /\ extensions < MaxExtends
    /\ doc' = extend_schema(doc, value, h)
    /\ base' = doc
    /\ data' = value
    /\ new_schema' = generate_schema(value, h)
    /\ op' = "extend"
    /\ extensions' = extensions + 1
    /\ samples' = IF ~track THEN <<>>
                  ELSE IF SameRootKind(doc, new_schema')
                  THEN Append(samples, value)
                  ELSE <<value>>
    /\ UNCHANGED <<schema1, schema2, merged>>

\* The process ends: its locals are gone, the document stays.
Exit ==
    /\ op \in {"generate", "extend"}
    /\ op' = "idle"
    /\ base' = None
    /\ data' = None
    /\ new_schema' = None
    /\ UNCHANGED <<doc, extensions, samples, schema1, schema2, merged>>

UserTitle == "Schema of the orders feed"

\* The base schema is a file of the user's: its title may be theirs.
EditTitle ==
    /\ op = "idle"
    /\ Truthy(doc)
    /\ doc["title"] # UserTitle
    /\ doc' = [doc EXCEPT !["title"] = UserTitle]
    /\ UNCHANGED <<base, data, new_schema, op, extensions, samples,
                   schema1, schema2, merged>>

GenerateRun == \E value \in Inputs : \E h \in HashOrdersFor(value) :
                    Generate(value, h, FALSE)

ExtendRun == \E value \in Inputs : \E h \in HashOrdersFor(value) :
                    Extend(value, h, FALSE)

Next == GenerateRun \/ ExtendRun \/ Exit \/ EditTitle

Spec == Init /\ [][Next]_vars

\* The same runs on fewer values, remembering every value absorbed.
\* Arrays of objects that disagree on the type under a key are among them.
ObjectLists ==
    {List(<<Dict("a" :> x)>>) : x \in Leaves}
    \cup {List(<<Dict("a" :> xy[1]), Dict("a" :> xy[2])>>) :
                xy \in {p \in Leaves \X Leaves : p[1] # p[2]}}

SampleInputs ==
    ListsOver({AnInt, AStr}) \cup ObjectLists
    \cup {Dict("p" :> l) : l \in ObjectLists}
    \cup DictsOver({"a", "b"}, {AnInt})

GenerateSample == \E value \in SampleInputs : \E h \in HashOrdersFor(value) :
                    Generate(value, h, TRUE)

ExtendSample == \E value \in SampleInputs : \E h \in HashOrdersFor(value) :
                    Extend(value, h, TRUE)

NextSamples == GenerateSample \/ ExtendSample \/ Exit

SpecSamples == Init /\ [][NextSamples]_vars

-----------------------------------------------------------------------------
(* merge_array_schemas called on two array nodes *)

\* node with "additionalItems" removed ("absent") or set to the value
WithAdditionalItems(node, value) ==
    IF value = "absent"
    THEN [k \in DOMAIN node \ {"additionalItems"} |-> node[k]]
    ELSE [k \in DOMAIN node \ {"additionalItems"} |-> node[k]]
            @@ ("additionalItems" :> (value = "true"))

\* Tuple nodes as analyze_array_items builds them, and as a prior schema may
\* hold them: with additionalItems false, true or left out
TupleNodes ==
    {WithAdditionalItems(analyze_array_items(l.elems, None, DefaultOrder), value) :
        l \in {m \in ListsOver({AnInt, AStr, Dict("a" :> AnInt)}) :
                    Cardinality(UniqueTypes(m.elems)) > 1},
        value \in {"absent", "false", "true"}}

HomogeneousNodes ==
    {analyze_array_items(l.elems, None, DefaultOrder) :
        l \in {List(<<>>), List(<<AnInt>>), List(<<Dict("a" :> AnInt)>>)}}

ArrayNodes == TupleNodes \cup HomogeneousNodes

InitMerge ==
    /\ doc = None
    /\ base = None
    /\ data = None
    /\ new_schema = None
    /\ op = "idle"
    /\ extensions = 0
    /\ samples = <<>>
    /\ schema1 \in ArrayNodes
    /\ schema2 \in ArrayNodes
    /\ merged = None

MergeArrays ==
    /\ merged = None
    /\ \E h \in HashOrders : merged' = merge_array_schemas(schema1, schema2, h)
    /\ UNCHANGED <<doc, base, data, new_schema, op, extensions, samples,
                   schema1, schema2>>

NextMerge == MergeArrays

SpecMerge == InitMerge /\ [][NextMerge]_vars

-----------------------------------------------------------------------------
(* Vocabulary of the properties *)

\* A node without the metadata of a document
Body(node) == [k \in DOMAIN node \ {"$schema", "title"} |-> node[k]]

IsObjectNode(node) == Get(node, "type") = PyStr("object")

IsArrayNode(node) == Get(node, "type") = PyStr("array")

Properties(node) == GetOr(node, "properties", EmptyDict)

Required(node) == Range(GetOr(node, "required", <<>>))

TypeSet(node) == normalize_type(Get(node, "type"))

\* The nodes directly below a node
Children(node) ==
    {Properties(node)[k] : k \in DOMAIN Properties(node)}
    \cup (IF "items" \notin DOMAIN node THEN {}
          ELSE IF IsList(node["items"]) THEN Range(node["items"].list)
          ELSE {node["items"]})

RECURSIVE Nodes(_)
\* A node and every node below it, at every depth
Nodes(node) == {node} \cup UNION {Nodes(c) : c \in Children(node)}

\* The hash orders tell apart every outcome of list(type2)[0]: a type2 of
\* several tags comes from the schema of the new value, and the tags it
\* holds are all among UnionTags.
PicksAmongUnionTags ==
    new_schema # None =>
        \A n \in Nodes(new_schema) :
            IsList(Get(n, "type")) => Range(n["type"].list) \subseteq UnionTags

-----------------------------------------------------------------------------
(* C3 *)

-----------------------------------------------------------------------------
(* C4 *)

WellFormedType(type) ==
    \/ IsStr(type) /\ type.str \in Range(type_order)
    \/ /\ IsList(type)
       /\ Len(type.list) >= 2
       /\ Range(type.list) \subseteq Range(type_order)
       /\ type.list = SelectSeq(type_order, LAMBDA t : t \in Range(type.list))

\* C4 (type-set well-formedness): every "type" at every depth of the
\* document is one of the six tags, or a list of two or more of them without
\* repeats in the order null, boolean, number, string, array, object.
C4_TypesWellFormed ==
    Truthy(doc) =>
        \A n \in Nodes(doc) : "type" \in DOMAIN n => WellFormedType(n["type"])

-----------------------------------------------------------------------------
(* C5 *)

\* C5 (required within properties): every object node of the document, at
\* the root, under a property, as the items of an array or at a tuple
\* position, requires only keys that its own properties hold.
C5_RequiredWithinProperties ==
    Truthy(doc) =>
        \A n \in Nodes(doc) :
            IsObjectNode(n) => Required(n) \subseteq DOMAIN Properties(n)

\* An extended document with an object node below the root that requires
\* a key and leaves another of its properties optional.
C5_Witness ==
    /\ op = "extend"
    /\ \E n \in Nodes(doc) \ {doc} :
            /\ IsObjectNode(n)
            /\ Required(n) # {}
            /\ Required(n) # DOMAIN Properties(n)
            /\ Required(n) \subseteq DOMAIN Properties(n)

-----------------------------------------------------------------------------
(* C2 *)

RECURSIVE RequiredIsIntersection(_, _, _)
\* m requires exactly what both a and b require, and so does every object
\* under a key that holds an object in both
RequiredIsIntersection(a, b, m) ==
    /\ Required(m) = Required(a) \cap Required(b)
    /\ \A k \in DOMAIN Properties(a) \cap DOMAIN Properties(b) :
            IsObjectNode(Properties(a)[k]) /\ IsObjectNode(Properties(b)[k])
                => /\ k \in DOMAIN Properties(m)
                   /\ RequiredIsIntersection(Properties(a)[k], Properties(b)[k],
                                             Properties(m)[k])

\* C2 (required is the intersection): merging two object nodes requires
\* exactly the keys both require, at the root and under every key that
\* holds an object on both sides; so a document generated from an object
\* requires its keys, and extended once with a second object it requires
\* the keys the two objects share.
C2_RequiredIsIntersection ==
    /\ op = "generate" /\ data.py = "dict"
            => Required(doc) = DOMAIN data.fields
    /\ op = "extend" /\ IsObjectNode(base) /\ IsObjectNode(new_schema)
            => /\ RequiredIsIntersection(base, new_schema, doc)
               /\ extensions = 1
                    => Required(doc) = Required(base) \cap DOMAIN data.fields

\* A first extend that drops a key of the base at the root and another one
\* inside a nested object.
C2_Witness ==
    /\ op = "extend"
    /\ extensions = 1
    /\ IsObjectNode(base)
    /\ data.py = "dict"
    /\ Required(doc) # {}
    /\ Required(doc) # Required(base)
    /\ \E k \in DOMAIN Properties(base) \cap DOMAIN Properties(new_schema) :
            /\ IsObjectNode(Properties(base)[k])
            /\ IsObjectNode(Properties(new_schema)[k])
            /\ Required(Properties(doc)[k]) # {}
            /\ Required(Properties(doc)[k]) # Required(Properties(base)[k])

-----------------------------------------------------------------------------
(* C6 *)

AllSameTag(elems) ==
    \A i \in DOMAIN elems : \A j \in DOMAIN elems :
        get_json_type(elems[i]) = get_json_type(elems[j])

\* The single-item form: one node as "items", no "additionalItems"; the
\* node carries the shared tag, and for objects the keys of all elements,
\* requiring those every element has.
HomogeneousForm(node, elems) ==
    /\ "items" \in DOMAIN node
    /\ ~IsList(node["items"])
    /\ "additionalItems" \notin DOMAIN node
    /\ IF get_json_type(elems[1]) = "object"
       THEN /\ IsObjectNode(node["items"])
            /\ DOMAIN Properties(node["items"])
                    = UNION {DOMAIN elems[i].fields : i \in DOMAIN elems}
            /\ \A k \in DOMAIN Properties(node["items"]) :
                    k \in Required(node["items"])
                        <=> \A i \in DOMAIN elems : k \in DOMAIN elems[i].fields
       ELSE node["items"] = ("type" :> PyStr(get_json_type(elems[1])))

\* The tuple form: a list as long as the array, ElementSchema(element i) at
\* position i, and additionalItems false.
TupleForm(node, elems, ElementSchema(_)) ==
    /\ "items" \in DOMAIN node
    /\ IsList(node["items"])
    /\ Len(node["items"].list) = Len(elems)
    /\ \A i \in DOMAIN elems : node["items"].list[i] = ElementSchema(elems[i])
    /\ "additionalItems" \in DOMAIN node
    /\ node["additionalItems"] = FALSE

GeneratedFromArray == op = "generate" /\ data.py = "list" /\ data.elems # <<>>

\* The schema generate builds for a value, without the metadata
SchemaOf(value) == Body(generate_schema(value, DefaultOrder))

\* What a tuple position holds: the object schema of an object, and for
\* anything else, a nested array too, the bare tag
TagOrObjectSchema(value) ==
    IF value.py = "dict" THEN SchemaOf(value)
    ELSE "type" :> PyStr(get_json_type(value))

\* C6 as stated (array shape decision): a non-empty array generates the
\* single-item form exactly when all its elements share one type tag, and
\* otherwise the tuple form whose position i holds the schema of element i.
C6_ArrayShapeAsStated ==
    GeneratedFromArray =>
        IF AllSameTag(data.elems)
        THEN HomogeneousForm(doc, data.elems)
        ELSE TupleForm(doc, data.elems, SchemaOf)

\* C6 as amended: the same, except that a tuple position holds the full
\* schema only of an object element; any other element, a nested array
\* included, gets just {type: its tag}.
C6_ArrayShape ==
    GeneratedFromArray =>
        IF AllSameTag(data.elems)
        THEN HomogeneousForm(doc, data.elems)
        ELSE TupleForm(doc, data.elems, TagOrObjectSchema)

\* A generated tuple holding an object next to a nested array.
C6_Witness ==
    /\ GeneratedFromArray
    /\ IsList(doc["items"])
    /\ \E i \in DOMAIN data.elems : data.elems[i].py = "dict"
    /\ \E i \in DOMAIN data.elems : data.elems[i].py = "list"
    /\ TupleForm(doc, data.elems, TagOrObjectSchema)

-----------------------------------------------------------------------------
(* C7 *)

\* C7 (root-type-mismatch replacement): unless the base and the schema of
\* the new value are both object-rooted or both array-rooted, extend returns
\* the document generate builds for the value, its $schema and title
\* included; when they are, the result has the base's $schema and title.
C7_RootMismatchReplaces ==
    op = "extend" =>
        IF SameRootKind(base, generate_schema(data, DefaultOrder))
        THEN /\ doc["$schema"] = base["$schema"]
             /\ doc["title"] = base["title"]
        ELSE \E h \in HashOrdersFor(data) : doc = generate_schema(data, h)

\* A base with a title of the user's, replaced by the schema of a value of
\* another root kind.
C7_Witness ==
    /\ op = "extend"
    /\ base["title"] = UserTitle
    /\ IsObjectNode(base)
    /\ IsArrayNode(doc)
    /\ doc["title"] = GeneratedTitle

-----------------------------------------------------------------------------
(* C1 *)

RECURSIVE Accepts(_, _)
\* The node accepts the value: its tag is in the node's type set, an object
\* has every required key and each of its keys that has a property schema
\* is accepted by it, every element of an array is accepted by a single
\* "items" node, and for a tuple element i is accepted by position i and
\* none lies beyond the tuple when additionalItems is false.
Accepts(value, node) ==
    /\ "type" \in DOMAIN node => get_json_type(value) \in TypeSet(node)
    /\ value.py = "dict" =>
            /\ Required(node) \subseteq DOMAIN value.fields
            /\ \A k \in DOMAIN value.fields \cap DOMAIN Properties(node) :
                    Accepts(value.fields[k], Properties(node)[k])
    /\ value.py = "list" /\ "items" \in DOMAIN node =>
            IF IsList(node["items"])
            THEN /\ \A i \in DOMAIN value.elems :
                        i <= Len(node["items"].list)
                            => Accepts(value.elems[i], node["items"].list[i])
                 /\ GetOr(node, "additionalItems", TRUE) = FALSE
                        => Len(value.elems) <= Len(node["items"].list)
            ELSE \A i \in DOMAIN value.elems :
                        Accepts(value.elems[i], node["items"])

\* C1 (widening soundness): the document made from values of one root kind,
\* by generate on the first and extend on the others, accepts each of them.
C1_AcceptsEverySample ==
    Truthy(doc) => \A i \in DOMAIN samples : Accepts(samples[i], doc)

-----------------------------------------------------------------------------
(* C8 *)

RECURSIVE ObjectUnionsComplete(_, _, _)
RECURSIVE ArrayUnionsComplete(_, _, _)

\* Two nodes with differing types, not both objects, merged into m: the
\* type set of m is the union of theirs.
UnionComplete(n1, n2, m) ==
    "type" \in DOMAIN n1 /\ "type" \in DOMAIN n2 /\ n1["type"] # n2["type"]
        => TypeSet(m) = TypeSet(n1) \cup TypeSet(n2)

ItemUnionComplete(item1, item2, m) ==
    IF IsObjectNode(item1) /\ IsObjectNode(item2)
    THEN ObjectUnionsComplete(item1, item2, m)
    ELSE UnionComplete(item1, item2, m)

ArrayUnionsComplete(a1, a2, m) ==
    LET items1 == GetOr(a1, "items", EmptyDict)
        items2 == GetOr(a2, "items", EmptyDict)
    IN  IF IsList(items1) /\ IsList(items2)
        THEN \A i \in DOMAIN items1.list \cap DOMAIN items2.list :
                ItemUnionComplete(items1.list[i], items2.list[i], m["items"].list[i])
        ELSE IF ~IsList(items1) /\ ~IsList(items2)
        THEN ItemUnionComplete(items1, items2, m["items"])
        ELSE TRUE

ObjectUnionsComplete(o1, o2, m) ==
    \A k \in DOMAIN Properties(o1) \cap DOMAIN Properties(o2) :
        LET p1 == Properties(o1)[k]
            p2 == Properties(o2)[k]
            pm == Properties(m)[k]
        IN  IF IsObjectNode(p1) /\ IsObjectNode(p2)
            THEN ObjectUnionsComplete(p1, p2, pm)
            ELSE IF IsArrayNode(p1) /\ IsArrayNode(p2)
            THEN ArrayUnionsComplete(p1, p2, pm)
            ELSE UnionComplete(p1, p2, pm)

\* C8 (type-union completeness): wherever a merger combines two nodes whose
\* types differ and are not both object, under a key of both objects, as
\* the items of both arrays or at a tuple index of both, the result's type
\* set is the union of the two type sets, also when the second node's type
\* is a list of several tags.
C8_UnionsComplete ==
    op = "extend" =>
        /\ IsObjectNode(base) /\ IsObjectNode(new_schema)
                => ObjectUnionsComplete(base, new_schema, doc)
        /\ IsArrayNode(base) /\ IsArrayNode(new_schema)
                => ArrayUnionsComplete(base, new_schema, doc)

-----------------------------------------------------------------------------
(* C10 *)

\* C10 (sample order does not matter): two objects absorbed in either order
\* give the same type, properties, required, items and additionalItems at
\* every depth, and an array of two objects generates the same items as
\* the array of the same objects swapped.
C10_OrderIndependent ==
    /\ op = "extend" /\ Len(samples) = 2
         /\ samples[1].py = "dict" /\ samples[2].py = "dict"
            => \E h1 \in HashOrders : \E h2 \in HashOrders :
                    Body(doc) = Body(extend_schema(generate_schema(samples[2], h1),
                                                   samples[1], h2))
    /\ op = "generate" /\ data.py = "list" /\ Len(data.elems) = 2
         /\ data.elems[1].py = "dict" /\ data.elems[2].py = "dict"
            => \E h \in HashOrders :
                    doc["items"] = generate_schema(
                        List(<<data.elems[2], data.elems[1]>>), h)["items"]

-----------------------------------------------------------------------------
(* C9 *)

BothTuples == IsList(Get(schema1, "items")) /\ IsList(Get(schema2, "items"))

\* The first value that is not the default false: input 1's, else input 2's
FirstNonDefault(s1, s2) ==
    IF GetOr(s1, "additionalItems", FALSE) # FALSE THEN s1["additionalItems"]
    ELSE IF GetOr(s2, "additionalItems", FALSE) # FALSE THEN s2["additionalItems"]
    ELSE FALSE

====
